---- MODULE Spec2Model ----
(***************************************************************************)
(* Model of src/index.js: a Telegraf bot that keeps one Client document    *)
(* per Telegram identity (MongoDB) and proxies button presses and menu     *)
(* entries to a backend REST API.                                          *)
(*                                                                         *)
(* Strings that the router inspects (callback data) are sequences of      *)
(* one-character strings, so that the regular-expression triggers can be   *)
(* executed the way RegExp.prototype.exec executes them (unanchored,       *)
(* leftmost match, greedy \d+).                                            *)
(***************************************************************************)
EXTENDS Integers, Sequences, FiniteSets, TLC

(***************************************************************************)
(* Bounds of the model.                                                    *)
(***************************************************************************)
MaxStamps == 1        \* the clock stops advancing at this timestamp

Identities == {"A", "B"}
ResourceIds == {7, 12}
\* Handler activations that may be suspended at an await side by side.
Slots == {1, 2}

None == [none |-> TRUE]
Undefined == "undefined"

(***************************************************************************)
(* Text helpers.                                                           *)
(***************************************************************************)
DigitChars == <<"0", "1", "2", "3", "4", "5", "6", "7", "8", "9">>

IsDigit(c) == \E i \in 1 .. 10 : DigitChars[i] = c

\* `${n}` for a non-negative integer n: its decimal digits.
RECURSIVE Digits(_)
Digits(n) == IF n < 10 THEN <<DigitChars[n + 1]>>
             ELSE Digits(n \div 10) \o <<DigitChars[(n % 10) + 1]>>

DigitValue(c) == (CHOOSE i \in 1 .. 10 : DigitChars[i] = c) - 1

\* The number a backend reads out of the digits of a path segment.
RECURSIVE ToNumber(_)
ToNumber(ds) == IF Len(ds) = 0 THEN 0
                ELSE 10 * ToNumber(SubSeq(ds, 1, Len(ds) - 1)) + DigitValue(ds[Len(ds)])

SetMin(S) == CHOOSE x \in S : \A y \in S : x <= y
SetMax(S) == CHOOSE x \in S : \A y \in S : x >= y

\* lit occurs in s at position i.
OccursAt(lit, s, i) ==
    /\ i + Len(lit) - 1 <= Len(s)
    /\ SubSeq(s, i, i + Len(lit) - 1) = lit

NoMatch == [matched |-> FALSE, group |-> <<>>]

\* new RegExp(lit + "(\\d+)").exec(s): leftmost occurrence of lit that is
\* followed by a digit; the group is the longest run of digits after it.
ExecDigits(lit, s) ==
    LET starts == {i \in 1 .. Len(s) :
                     /\ OccursAt(lit, s, i)
                     /\ i + Len(lit) <= Len(s)
                     /\ IsDigit(s[i + Len(lit)])}
    IN  IF starts = {} THEN NoMatch
        ELSE LET b == SetMin(starts) + Len(lit)
                 e == SetMax({j \in b .. Len(s) : \A k \in b .. j : IsDigit(s[k])})
             IN  [matched |-> TRUE, group |-> SubSeq(s, b, e)]

\* new RegExp(lit + "(a1|a2)").exec(s): leftmost occurrence of lit followed
\* by one of the alternatives (the first alternative that fits wins).
ExecAlternatives(lit, alts, s) ==
    LET fits(i, a) == OccursAt(lit \o alts[a], s, i)
        starts == {i \in 1 .. Len(s) : \E a \in 1 .. Len(alts) : fits(i, a)}
    IN  IF starts = {} THEN NoMatch
        ELSE LET i == SetMin(starts)
                 a == SetMin({x \in 1 .. Len(alts) : fits(i, x)})
             IN  [matched |-> TRUE, group |-> alts[a]]

\* A string trigger of Telegraf matches the whole callback data only.
ExecString(lit, s) ==
    IF s = lit THEN [matched |-> TRUE, group |-> <<>>] ELSE NoMatch

(***************************************************************************)
(* Callback data literals of the source.                                   *)
(***************************************************************************)
S_job == <<"j", "o", "b", "_">>
S_run_job == <<"r", "u", "n", "_">> \o S_job
S_delete_job == <<"d", "e", "l", "e", "t", "e", "_">> \o S_job
S_confirm == <<"c", "o", "n", "f", "i", "r", "m", "_">>
S_confirm_delete_job == S_confirm \o S_delete_job
S_target == <<"t", "a", "r", "g", "e", "t", "_">>
S_lead == <<"l", "e", "a", "d", "_">>
S_leads == <<"l", "e", "a", "d", "s", "_">>
S_all == <<"a", "l", "l">>
S_ready == <<"r", "e", "a", "d", "y">>
S_list == <<"l", "i", "s", "t">>
S_create == <<"c", "r", "e", "a", "t", "e">>
S_back == <<"b", "a", "c", "k", "_">>
S_jobs_list == <<"j", "o", "b", "s", "_">> \o S_list
S_jobs_create == <<"j", "o", "b", "s", "_">> \o S_create
S_targets_list == <<"t", "a", "r", "g", "e", "t", "s", "_">> \o S_list
S_targets_create == <<"t", "a", "r", "g", "e", "t", "s", "_">> \o S_create
S_leads_all == S_leads \o S_all
S_leads_ready == S_leads \o S_ready
S_back_menu == S_back \o <<"m", "e", "n", "u">>
S_back_jobs == S_back \o <<"j", "o", "b", "s">>
S_back_targets == S_back \o <<"t", "a", "r", "g", "e", "t", "s">>
S_back_leads == S_back \o <<"l", "e", "a", "d", "s">>
S_confirm_delete_account ==
    S_confirm \o <<"d", "e", "l", "e", "t", "e", "_", "a", "c", "c", "o", "u", "n", "t">>
S_cancel_delete == <<"c", "a", "n", "c", "e", "l", "_", "d", "e", "l", "e", "t", "e">>

\* `prefix${id}` as the screens build it.
WithId(prefix, id) == prefix \o Digits(id)

(***************************************************************************)
(* The router: bot.action(trigger, handler) registrations in source order. *)
(* Telegraf runs the first registration whose trigger matches; none of the *)
(* handlers calls next().                                                  *)
(***************************************************************************)
ActionTable == <<
    [handler |-> "jobs_list",              kind |-> "string", lit |-> S_jobs_list],
    [handler |-> "job",                    kind |-> "digits", lit |-> S_job],
    [handler |-> "run_job",                kind |-> "digits", lit |-> S_run_job],
    [handler |-> "delete_job",             kind |-> "digits", lit |-> S_delete_job],
    [handler |-> "confirm_delete_job",     kind |-> "digits", lit |-> S_confirm_delete_job],
    [handler |-> "targets_list",           kind |-> "string", lit |-> S_targets_list],
    [handler |-> "leads",                  kind |-> "alts",   lit |-> S_leads],
    [handler |-> "lead",                   kind |-> "digits", lit |-> S_lead],
    [handler |-> "confirm_delete_account", kind |-> "string", lit |-> S_confirm_delete_account],
    [handler |-> "cancel_delete",          kind |-> "string", lit |-> S_cancel_delete],
    [handler |-> "back_menu",              kind |-> "string", lit |-> S_back_menu],
    [handler |-> "back_jobs",              kind |-> "string", lit |-> S_back_jobs],
    [handler |-> "back_targets",           kind |-> "string", lit |-> S_back_targets],
    [handler |-> "back_leads",             kind |-> "string", lit |-> S_back_leads] >>

\* trigger(data) of one registration.
ExecTrigger(entry, data) ==
    IF entry.kind = "digits" THEN ExecDigits(entry.lit, data)
    ELSE IF entry.kind = "alts"
         THEN ExecAlternatives(entry.lit, <<S_all, S_ready>>, data)
         ELSE ExecString(entry.lit, data)

NoHandler == "(none)"

\* The handler a callback query with this data is dispatched to, and ctx.match[1].
Dispatch(data) ==
    LET hits == {i \in 1 .. Len(ActionTable) : ExecTrigger(ActionTable[i], data).matched}
    IN  IF hits = {} THEN [handler |-> NoHandler, group |-> <<>>]
        ELSE LET i == SetMin(hits)
             IN  [handler |-> ActionTable[i].handler,
                  group |-> ExecTrigger(ActionTable[i], data).group]

(***************************************************************************)
(* Credential store (the Client collection) and backend.                   *)
(***************************************************************************)
DefaultUrl == "http://localhost:5000/api/v1"
OtherUrl == "https://example.org/api/v1"
Urls == {DefaultUrl, OtherUrl}

\* Tokens the backend accepts: one of 4 characters, one of 12.
ValidTokens == {"tok1", "tok2-abcdefg"}
Tokens == ValidTokens \cup {"bad"}

Doc(id, token, url, used) ==
    [telegramId |-> id, apiToken |-> token, baseUrl |-> url, lastUsed |-> used]

\* Client.findOne without a filter on telegramId: any document will do.
getClient_anyDocument(db, telegramId) ==
    IF db = {} THEN None ELSE CHOOSE d \in db : TRUE

\* getClient: Client.findOne({ telegramId }).
getClient(db, telegramId) ==
    IF \E d \in db : d.telegramId = telegramId
    THEN CHOOSE d \in db : d.telegramId = telegramId
    ELSE None

\* An insert in place of the upsert: a second document for the identity.
findOneAndUpdate_insert(db, telegramId, token, now) ==
    db \cup {Doc(telegramId, token, DefaultUrl, now)}

\* Client.findOneAndUpdate({telegramId}, {telegramId, apiToken, baseUrl, lastUsed},
\* {upsert: true}): one atomic document operation.
findOneAndUpdate(db, telegramId, token, now) ==
    {d \in db : d.telegramId # telegramId} \cup {Doc(telegramId, token, DefaultUrl, now)}

\* Client.updateOne({telegramId}, {baseUrl}): no upsert.
updateBaseUrl(db, telegramId, url) ==
    {IF d.telegramId = telegramId THEN [d EXCEPT !.baseUrl = url] ELSE d : d \in db}

\* A touch that upserts: it would bring a deleted record back.
touch_upsert(db, telegramId, now) ==
    IF \E d \in db : d.telegramId = telegramId
    THEN {IF d.telegramId = telegramId THEN [d EXCEPT !.lastUsed = now] ELSE d : d \in db}
    ELSE db \cup {Doc(telegramId, "", DefaultUrl, now)}

\* Client.updateOne({telegramId}, {lastUsed}) in makeApiRequest: no upsert.
touch(db, telegramId, now) ==
    {IF d.telegramId = telegramId THEN [d EXCEPT !.lastUsed = now] ELSE d : d \in db}

\* Client.deleteOne({telegramId}).
deleteOne(db, telegramId) == {d \in db : d.telegramId # telegramId}

Path(res, id, sub) == [res |-> res, id |-> id, sub |-> sub]

Call(method, client, path) ==
    [method |-> method, url |-> client.baseUrl, token |-> client.apiToken, path |-> path]

\* data.pagination of a list answer: the request asks for page 1, and the items
\* of the model fit on it.
Pagination(items) == [page |-> 1, pages |-> 1, total |-> Cardinality(items)]

\* response.data: items is data.data.
Response(status, items) ==
    [status |-> status, items |-> items, pagination |-> Pagination(items)]

\* What the backend may answer to a request, given the jobs it holds.  A
\* request may always fail to get an answer ("down").
Responses(call, held) ==
    {Response("down", {})} \cup
    IF call.token \notin ValidTokens THEN {Response("unauthorized", {})}
    ELSE IF call.path.res = "jobs" /\ call.path.id = <<>> THEN {Response("ok", held)}
    ELSE IF call.path.res = "jobs"
         THEN IF ToNumber(call.path.id) \in held
              THEN {Response("ok", {})} ELSE {Response("notfound", {})}
    ELSE IF call.path.id # <<>>
         THEN {Response("ok", {}), Response("notfound", {})}
    ELSE IF call.path.res = "stats" THEN {Response("ok", {})}
    ELSE {Response("ok", items) : items \in SUBSET ResourceIds}

\* The jobs of the backend after it has answered the request.
HeldAfter(call, resp, held) ==
    IF call.method = "DELETE" /\ call.path.res = "jobs" /\ resp.status = "ok"
    THEN held \ {ToNumber(call.path.id)}
    ELSE held

\* error.response?.data || { error: 'API request failed' }, its error field.
ErrorField(resp) ==
    IF resp.status = "notfound" THEN "Not found"
    ELSE IF resp.status = "unauthorized" THEN "Invalid token"
    ELSE "API request failed"


(***************************************************************************)
(* Screens: what a handler sends to the user.  text is the message body    *)
(* ("" when the handler sends or edits no message), detail the variable    *)
(* part of an error text, buttons the callback data of the inline buttons, *)
(* alerts the texts of answerCbQuery(..., {show_alert: true}), paging the   *)
(* page numbers and counts the text shows, token what it shows of the      *)
(* token.                                                                  *)
(***************************************************************************)
Screen(text, detail, buttons, alerts) ==
    [text |-> text, detail |-> detail, buttons |-> buttons, alerts |-> alerts,
     paging |-> {}, token |-> ""]

\* String.prototype.substring(from, to) for 0 <= from <= to.
Substring(s, from, to) == SubSeq(s, from + 1, IF to < Len(s) THEN to ELSE Len(s))

\* The settings text: `Token: ${client.apiToken.substring(0, 10)}...`
Settings(client) ==
    [Screen("Settings", "", {}, <<>>) EXCEPT !.token = Substring(client.apiToken, 0, 10)]

\* A number the text of a list screen shows, and the screen with such numbers.
Field(name, value) == [field |-> name, value |-> value]
Paged(screen, fields) == [screen EXCEPT !.paging = fields]

Message(text) == Screen(text, "", {}, <<>>)
Menu(text, buttons) == Screen(text, "", buttons, <<>>)
ErrorScreen(detail) == Screen("Error: ", detail, {}, <<>>)
Alert(text) == Screen("", "", {}, <<text>>)

NotOnboarded == Message("Please set your token first: /settoken")
\* bot.catch: the reply to an error that left a handler.
GenericError == Message("An error occurred. Please try again.")
\* No registration matched: Telegraf sends nothing.
NoReply == Message("")

JobsMenu == Menu("Job Management", {S_jobs_list, S_jobs_create, S_back_menu})
TargetsMenu == Menu("Target Management", {S_targets_list, S_targets_create, S_back_menu})
LeadsMenu == Menu("Leads Management", {S_leads_all, S_leads_ready, S_back_menu})
MainMenu == Message("Choose an option:")

(***************************************************************************)
(* Events and handler activations.                                         *)
(***************************************************************************)
Event(kind, from, name, arg, data) ==
    [kind |-> kind, from |-> from, name |-> name, arg |-> arg, data |-> data,
     telegram |-> "accepts"]

\* The same update, handled while the Telegram API rejects the calls of the bot
\* (the user has blocked the bot, the bot is rate limited, the API is down).
Rejected(ev) == [ev EXCEPT !.telegram = "rejects"]

Commands(u) ==
    {Event("command", u, "start", "", <<>>), Event("command", u, "deleteaccount", "", <<>>)}
    \cup {Event("command", u, "settoken", t, <<>>) : t \in Tokens \cup {""}}
    \cup {Event("command", u, "seturl", l, <<>>) : l \in {OtherUrl, ""}}

MenuTexts == {"Jobs", "Targets", "Leads", "Statistics", "Content Analysis", "Settings", "Cancel"}

Texts(u) == {Event("text", u, n, "", <<>>) : n \in MenuTexts}

\* Callback data of every button a screen of the source carries.
FixedData ==
    {S_jobs_list, S_jobs_create, S_targets_list, S_targets_create, S_leads_all,
     S_leads_ready, S_back_menu, S_back_jobs, S_back_targets, S_back_leads,
     S_confirm_delete_account, S_cancel_delete}

IdPrefixes == {S_job, S_run_job, S_delete_job, S_confirm_delete_job, S_target, S_lead}

ButtonData == FixedData \cup {WithId(p, n) : p \in IdPrefixes, n \in ResourceIds}

\* Dispatch, tabulated over the callback data of the model.
Route == [d \in ButtonData \cup {<<>>} |-> Dispatch(d)]

Presses(u) == {Event("press", u, "", "", d) : d \in ButtonData}

\* Every event of the bot, as sent by one identity.
AllEvents == Commands("A") \cup Texts("A") \cup Presses("A")

\* The events that reach the store or the backend, for the interleaved runs.
CoreData == {S_confirm_delete_account, WithId(S_job, 7)}

CoreEvents ==
    {Event("command", "A", "settoken", t, <<>>) : t \in ValidTokens}
    \cup {Event("command", "B", "settoken", "tok2-abcdefg", <<>>),
          Event("command", "A", "seturl", OtherUrl, <<>>)}
    \cup {Event("press", u, "", "", d) : u \in Identities, d \in CoreData}

Task(pc, ev, handler, group, client, calls, resp, screen) ==
    [pc |-> pc, ev |-> ev, handler |-> handler, group |-> group, client |-> client,
     calls |-> calls, resp |-> resp, screen |-> screen]

NoEvent == Event("", "", "", "", <<>>)
IdleTask == Task("idle", NoEvent, "", <<>>, None, <<>>, None, None)

\* A handler that has run to its end.
Done(ev, handler, group, client, calls, resp, screen) ==
    Task("done", ev, handler, group, client, calls, resp, screen)


(***************************************************************************)
(* The handlers that go through makeApiRequest.                            *)
(***************************************************************************)
ApiHandlers == {"jobs_list", "job", "run_job", "confirm_delete_job", "targets_list",
                "leads", "lead", "stats", "content"}

\* The request a handler hands to makeApiRequest.
Request(handler, group, client) ==
    CASE handler = "jobs_list" -> Call("GET", client, Path("jobs", <<>>, "?page=1&per_page=10"))
      [] handler = "job" -> Call("GET", client, Path("jobs", group, ""))
      [] handler = "run_job" -> Call("POST", client, Path("jobs", group, "/run"))
      [] handler = "confirm_delete_job" -> Call("DELETE", client, Path("jobs", group, ""))
      [] handler = "targets_list" ->
            Call("GET", client, Path("targets", <<>>, "?page=1&per_page=10"))
      [] handler = "leads" ->
            Call("GET", client, Path("leads", <<>>,
                 IF group = S_ready THEN "?outreach_ready=true&page=1" ELSE "?page=1"))
      [] handler = "lead" -> Call("GET", client, Path("leads", group, ""))
      [] handler = "stats" -> Call("GET", client, Path("stats", <<>>, ""))
      [] handler = "content" ->
            Call("GET", client, Path("content-analysis", <<>>, "?page=1&per_page=5"))

\* The catch block of a handler; thrown is the error field of what was thrown
\* (Undefined for a TypeError or ReferenceError, which has no such field).
OnError(handler, thrown) ==
    LET or(fallback) == ErrorScreen(IF thrown = Undefined THEN fallback ELSE thrown)
    IN  CASE handler = "jobs_list" -> or("Failed to fetch jobs")
          [] handler = "job" -> or("Failed to fetch job")
          [] handler = "targets_list" -> or("Failed to fetch targets")
          [] handler = "leads" -> or("Failed to fetch leads")
          [] handler = "lead" -> or("Failed to fetch lead")
          [] handler = "stats" -> or("Failed to fetch statistics")
          [] handler = "content" -> or("Failed to fetch content analysis")
          [] handler \in {"run_job", "confirm_delete_job"} -> Alert(thrown)

\* No list is ever taken to be empty.
IsEmpty_never(items) == FALSE

\* data.data.length === 0
IsEmpty(items) == items = {}

\* The try block of a handler after makeApiRequest has returned resp.
OnSuccess(handler, group, resp) ==
    CASE handler = "jobs_list" ->
            IF IsEmpty(resp.items) THEN Message("No jobs found.")
            ELSE Paged(Menu("Jobs List",
                            {WithId(S_job, i) : i \in resp.items} \cup {S_back_jobs}),
                       {Field("page", resp.pagination.page),
                        Field("pages", resp.pagination.pages),
                        Field("total", resp.pagination.total)})
      [] handler = "job" ->
            Menu("Job Details", {S_run_job \o group, S_delete_job \o group, S_jobs_list})
      [] handler = "run_job" ->
            \* ctx.scene is undefined: reenter() throws inside the try block,
            \* after the 'Job started!' alert.
            Screen("", "", {}, <<"Job started!">> \o OnError(handler, Undefined).alerts)
      [] handler = "confirm_delete_job" ->
            Screen("Job deleted successfully!", "", {}, <<"Job deleted!">>)
      [] handler = "targets_list" ->
            IF IsEmpty(resp.items) THEN Message("No targets found.")
            ELSE Paged(Menu("Targets",
                            {WithId(S_target, i) : i \in resp.items} \cup {S_back_targets}),
                       {Field("page", resp.pagination.page),
                        Field("pages", resp.pagination.pages)})
      [] handler = "leads" ->
            IF IsEmpty(resp.items) THEN Message("No leads found.")
            ELSE Paged(Menu("Leads",
                            {WithId(S_lead, i) : i \in resp.items} \cup {S_back_leads}),
                       {Field("page", resp.pagination.page),
                        Field("pages", resp.pagination.pages),
                        Field("total", resp.pagination.total)})
      [] handler = "lead" ->
            \* `type` is not defined in this handler: building the keyboard throws
            \* a ReferenceError inside the try block.
            OnError(handler, Undefined)
      [] handler = "stats" -> Message("Statistics Dashboard")
      [] handler = "content" ->
            IF IsEmpty(resp.items) THEN Message("No content analysis data found.")
            \* `Page 1/${data.pagination.pages}`: the page is a literal
            ELSE Paged(Message("Content Analysis"),
                       {Field("page", 1), Field("pages", resp.pagination.pages)})

\* makeApiRequest after axios resolved: Client.updateOne is awaited inside the
\* try block, so its rejection is rethrown as { error: 'API request failed' }.
AfterTouch(handler, group, resp, dbOk) ==
    IF dbOk THEN OnSuccess(handler, group, resp)
    ELSE OnError(handler, "API request failed")

\* settoken writes whatever the verification said.
AfterVerify_unchecked(resp) == "upsert"

\* settoken: axios rejects on a non-2xx answer or no answer, and the rejection
\* skips the write.
AfterVerify(resp) == IF resp.status = "ok" THEN "upsert" ELSE "done"

\* A cancel handler that has the body of the confirm handler.
StoreAfterPress_cancelDeletes(handler, db, telegramId) ==
    IF handler \in {"confirm_delete_account", "cancel_delete"}
    THEN deleteOne(db, telegramId) ELSE db

\* The store after a button handler that makes no backend call.
StoreAfterPress(handler, db, telegramId) ==
    IF handler = "confirm_delete_account" THEN deleteOne(db, telegramId) ELSE db

\* The screen of a button handler that makes no backend call.
PressScreen(handler, group) ==
    CASE handler = NoHandler -> NoReply
      [] handler = "delete_job" ->
            Menu("Are you sure you want to delete this job?",
                 {S_confirm_delete_job \o group, S_jobs_list})
      [] handler = "confirm_delete_account" -> Message("Account deleted successfully!")
      [] handler = "cancel_delete" -> Message("Account deletion cancelled.")
      [] handler = "back_menu" -> MainMenu
      [] handler = "back_jobs" -> JobsMenu
      [] handler = "back_targets" -> TargetsMenu
      [] handler = "back_leads" -> LeadsMenu


(***************************************************************************)
(* State.                                                                  *)
(***************************************************************************)
VARIABLES
    docs,     \* the Client collection: a set of documents
    jobs,     \* ids of the jobs the backend holds
    tasks,    \* per slot: the handler activation it holds
    clock,    \* the last timestamp read (stands for Date.now)
    alive     \* the Node process is running

vars == <<docs, jobs, tasks, clock, alive>>

InitStores ==
    {db \in SUBSET {Doc(u, "tok1", DefaultUrl, 0) : u \in Identities} : TRUE}

Init ==
    /\ docs \in InitStores
    /\ jobs \in {{}, {7}}
    /\ tasks = [k \in Slots |-> IdleTask]
    /\ clock = 0
    /\ alive = TRUE

\* new Date(): the clock has not run backwards since the last reading.
Now == {clock} \cup ({clock + 1} \cap (0 .. MaxStamps))

Free(k) == tasks[k].pc \in {"idle", "done"}
InFlight(k) == ~Free(k)

\* The part of a handler that runs up to its first await on the store's or the
\* backend's answer that another handler can interleave with: the activation
\* it leaves behind, and the store afterwards.
Begin(ev, db, dbOk) ==
    LET u == ev.from
        client == getClient(db, u)
        r == Route[ev.data]
        fin(handler, group, cl, screen) ==
            [task |-> Done(ev, handler, group, cl, <<>>, None, screen), docs |-> db]
        wait(pc, handler, group, cl) ==
            [task |-> Task(pc, ev, handler, group, cl, <<>>, None, None), docs |-> db]
        \* getClient rejected: the error leaves the handler and reaches bot.catch
        lookup(handler, group, then) ==
            IF dbOk THEN then ELSE fin(handler, group, None, GenericError)
        guarded(handler, then) ==
            lookup(handler, <<>>,
                   IF client = None THEN fin(handler, <<>>, None, NotOnboarded) ELSE then)
    IN  CASE ev.kind = "command" /\ ev.name = "start" ->
                lookup("start", <<>>,
                       IF client = None
                       THEN fin("start", <<>>, None, Message("Welcome to the API Management Bot!"))
                       ELSE fin("start", <<>>, client, Message("Welcome back!")))
          [] ev.kind = "command" /\ ev.name = "settoken" ->
                IF ev.arg = ""
                THEN fin("settoken", <<>>, None, Message("Please provide your API token"))
                ELSE wait("verify", "settoken", <<>>, None)
          [] ev.kind = "command" /\ ev.name = "seturl" ->
                IF ev.arg = ""
                THEN fin("seturl", <<>>, None, Message("Please provide the base URL"))
                ELSE lookup("seturl", <<>>,
                            IF client = None
                            THEN fin("seturl", <<>>, None,
                                     Message("Please set your API token first using /settoken"))
                            ELSE wait("update", "seturl", <<>>, client))
          [] ev.kind = "command" /\ ev.name = "deleteaccount" ->
                fin("deleteaccount", <<>>, None,
                    Menu("Are you sure you want to delete your account?",
                         {S_confirm_delete_account, S_cancel_delete}))
          [] ev.kind = "text" /\ ev.name = "Jobs" ->
                guarded("hears_jobs", fin("hears_jobs", <<>>, client, JobsMenu))
          [] ev.kind = "text" /\ ev.name = "Targets" ->
                guarded("hears_targets", fin("hears_targets", <<>>, client, TargetsMenu))
          [] ev.kind = "text" /\ ev.name = "Leads" ->
                guarded("hears_leads", fin("hears_leads", <<>>, client, LeadsMenu))
          [] ev.kind = "text" /\ ev.name = "Statistics" ->
                guarded("stats", wait("call", "stats", <<>>, client))
          [] ev.kind = "text" /\ ev.name = "Content Analysis" ->
                guarded("content", wait("call", "content", <<>>, client))
          [] ev.kind = "text" /\ ev.name = "Settings" ->
                guarded("settings", fin("settings", <<>>, client, Settings(client)))
          [] ev.kind = "text" /\ ev.name = "Cancel" ->
                fin("cancel", <<>>, None, Message("Operation cancelled."))
          [] ev.kind = "press" /\ r.handler \in ApiHandlers ->
                \* no check of the client: makeApiRequest(null, ...) throws a
                \* TypeError inside its try block and rethrows the generic payload
                lookup(r.handler, r.group,
                       IF client = None
                       THEN fin(r.handler, r.group, None,
                                OnError(r.handler, "API request failed"))
                       ELSE wait("call", r.handler, r.group, client))
          [] ev.kind = "press" /\ r.handler = "confirm_delete_account" ->
                IF dbOk
                THEN [task |-> Done(ev, r.handler, r.group, None, <<>>, None,
                                    PressScreen(r.handler, r.group)),
                      docs |-> StoreAfterPress(r.handler, db, u)]
                ELSE fin(r.handler, r.group, None, GenericError)
          [] ev.kind = "press" /\ r.handler \notin ApiHandlers \cup {"confirm_delete_account"} ->
                [task |-> Done(ev, r.handler, r.group, None, <<>>, None,
                               PressScreen(r.handler, r.group)),
                 docs |-> StoreAfterPress(r.handler, db, u)]

\* Whether the store answers the first query of the handler (TRUE) or rejects
\* it; handlers that start without a query see no difference.
StoreAnswers(ev) ==
    IF \/ ev.kind = "command" /\ ev.name \in {"deleteaccount", "settoken"}
       \/ ev.kind = "command" /\ ev.arg = ""  /\ ev.name = "seturl"
       \/ ev.kind = "text" /\ ev.name = "Cancel"
       \/ ev.kind = "press" /\ Route[ev.data].handler \notin
                                  ApiHandlers \cup {"confirm_delete_account"}
    THEN {TRUE} ELSE BOOLEAN

\* The same part of a handler when Telegram rejects the calls of the bot.  The
\* first Telegram call of every handler but seturl comes before its first write
\* and outside any try block (reactToMessage alone swallows its rejection): the
\* rejection leaves the handler there.  seturl replies only after its update.
\* b is what Begin gives for the update.
BeginRejected(ev, db, b) ==
    IF b.task.handler = NoHandler \/ b.task.pc = "update" THEN b
    ELSE [task |-> Done(ev, b.task.handler, b.task.group, None, <<>>, None, NoReply),
          docs |-> db]

\* What the user gets of a screen the handler sends.
Send(ev, screen) == IF ev.telegram = "accepts" THEN screen ELSE NoReply

\* bot.catch calls ctx.reply without awaiting or catching it: when that reply is
\* rejected too, the rejection is unhandled.  Node 15 and later end the process
\* on it, earlier versions print a warning and go on.
AfterCatch(ev, running) == IF ev.telegram = "accepts" THEN {running} ELSE BOOLEAN

LowestFree(k) == Free(k) /\ \A j \in Slots : j < k => InFlight(j)

\* Telegraf hands an update to the middleware chain.
Deliver(k, ev) ==
    /\ alive
    /\ LowestFree(k)
    /\ \E dbOk \in StoreAnswers(ev) :
          \E begun \in {Begin(ev, docs, dbOk)} :
             \E b \in {IF ev.telegram = "accepts" THEN begun
                       ELSE BeginRejected(ev, docs, begun)} :
                /\ tasks' = [tasks EXCEPT ![k] = b.task]
                /\ docs' = b.docs
                /\ alive' \in IF b.task.pc = "done" /\ b.task.handler # NoHandler
                              THEN AfterCatch(ev, alive) ELSE {alive}
    /\ UNCHANGED <<jobs, clock>>

\* One update at a time: the next one is taken when no handler is suspended.
DeliverOne == \E ev \in AllEvents : (\A j \in Slots : Free(j)) /\ Deliver(1, ev)

\* The next update, handled while Telegram rejects the calls of the bot.
RejectedEvents == {Rejected(ev) : ev \in AllEvents}

DeliverRejected == \E ev \in RejectedEvents : (\A j \in Slots : Free(j)) /\ Deliver(1, ev)

\* Updates of one batch run side by side.
DeliverAny == \E k \in Slots, ev \in CoreEvents : Deliver(k, ev)


\* A suspended handler runs to its end and sends its screen; its copy of the
\* Client document goes with it.
Finish(k, screen) ==
    tasks' = [tasks EXCEPT ![k].pc = "done", ![k].screen = screen, ![k].client = None]

\* settoken: testConfig, GET <configured base URL>/stats with the token of the
\* command.
VerifyCall(token) ==
    [method |-> "GET", url |-> DefaultUrl, token |-> token, path |-> Path("stats", <<>>, "")]

\* settoken: await axios(testConfig) and what follows its answer.
Verify(k) ==
    LET t == tasks[k]
        call == VerifyCall(t.ev.arg)
    IN  /\ alive
        /\ t.pc = "verify"
        /\ \E resp \in Responses(call, jobs) :
              IF AfterVerify(resp) = "upsert"
              THEN tasks' = [tasks EXCEPT ![k].pc = "upsert", ![k].resp = resp,
                                             ![k].calls = Append(@, call)]
              ELSE tasks' = [tasks EXCEPT ![k].pc = "done", ![k].resp = resp,
                                             ![k].calls = Append(@, call),
                                             ![k].screen =
                                                Message("Invalid token or API is unreachable.")]
        /\ UNCHANGED <<docs, jobs, clock, alive>>

\* settoken: Client.findOneAndUpdate(..., {upsert: true}); a rejection lands in
\* the same catch block as a failed verification.
Upsert(k) ==
    LET t == tasks[k]
    IN  /\ alive
        /\ t.pc = "upsert"
        /\ \E dbOk \in BOOLEAN :
              IF dbOk
              THEN /\ clock' \in Now
                   /\ docs' = findOneAndUpdate(docs, t.ev.from, t.ev.arg, clock')
                   /\ Finish(k, Message("Token verified and saved successfully!"))
              ELSE /\ UNCHANGED <<docs, clock>>
                   /\ Finish(k, Message("Invalid token or API is unreachable."))
        /\ UNCHANGED <<jobs, alive>>

\* seturl: Client.updateOne({telegramId}, {baseUrl}) after the lookup; the reply
\* does not look at the result, a rejection of the update or of the reply
\* reaches bot.catch.
UpdateUrl(k) ==
    LET t == tasks[k]
    IN  /\ alive
        /\ t.pc = "update"
        /\ \E dbOk \in BOOLEAN :
              IF dbOk
              THEN /\ docs' = updateBaseUrl(docs, t.ev.from, t.ev.arg)
                   /\ Finish(k, Send(t.ev, Message("Base URL updated successfully!")))
              ELSE /\ docs' = docs
                   /\ Finish(k, Send(t.ev, GenericError))
        /\ alive' \in AfterCatch(t.ev, alive)
        /\ UNCHANGED <<jobs, clock>>

\* makeApiRequest: await axios(config).
ApiCall(k) ==
    LET t == tasks[k]
        call == Request(t.handler, t.group, t.client)
    IN  /\ alive
        /\ t.pc = "call"
        /\ \E resp \in Responses(call, jobs) :
              /\ jobs' = HeldAfter(call, resp, jobs)
              /\ IF resp.status = "ok"
                 THEN tasks' = [tasks EXCEPT ![k].pc = "touch", ![k].resp = resp,
                                                ![k].calls = Append(@, call)]
                 ELSE tasks' = [tasks EXCEPT ![k].pc = "done", ![k].resp = resp,
                                                ![k].client = None,
                                                ![k].calls = Append(@, call),
                                                ![k].screen =
                                                   OnError(t.handler, ErrorField(resp))]
        /\ UNCHANGED <<docs, clock, alive>>

\* makeApiRequest: await Client.updateOne({telegramId: client.telegramId},
\* {lastUsed}), then the rest of the handler.
Touch(k) ==
    LET t == tasks[k]
    IN  /\ alive
        /\ t.pc = "touch"
        /\ \E dbOk \in BOOLEAN :
              /\ IF dbOk
                 THEN /\ clock' \in Now
                      /\ docs' = touch(docs, t.client.telegramId, clock')
                 ELSE UNCHANGED <<docs, clock>>
              /\ Finish(k, AfterTouch(t.handler, t.group, t.resp, dbOk))
        /\ UNCHANGED <<jobs, alive>>

\* axios(config) without a timeout option: when the backend takes the request
\* and never answers, the promise stays pending and nothing in the handler
\* ends the wait.
Hang(k) ==
    LET t == tasks[k]
        call == IF t.pc = "verify" THEN VerifyCall(t.ev.arg)
                ELSE Request(t.handler, t.group, t.client)
    IN  /\ alive
        /\ t.pc \in {"verify", "call"}
        /\ tasks' = [tasks EXCEPT ![k].pc = "pending", ![k].calls = Append(@, call)]
        /\ UNCHANGED <<docs, jobs, clock, alive>>

Verifies == \E k \in Slots : Verify(k)
Upserts == \E k \in Slots : Upsert(k)
UpdatesUrl == \E k \in Slots : UpdateUrl(k)
ApiCalls == \E k \in Slots : ApiCall(k)
Touches == \E k \in Slots : Touch(k)
Hangs == \E k \in Slots : Hang(k)

\* Every event of the bot, handled one at a time.
Next == DeliverOne \/ Verifies \/ Upserts \/ UpdatesUrl \/ ApiCalls \/ Touches

Spec == Init /\ [][Next]_vars

\* The store and backend events, with handlers suspended side by side.
NextInterleaved == DeliverAny \/ Verifies \/ Upserts \/ UpdatesUrl \/ ApiCalls \/ Touches

InitInterleaved == Init /\ jobs = {7}

SpecInterleaved == InitInterleaved /\ [][NextInterleaved]_vars

\* The events of Next with a backend that may also stay silent.
NextSilent == Next \/ Hangs

\* A promise that has settled gets its continuation run by the event loop; the
\* store and a backend that answers settle theirs.
Fairness ==
    \A k \in Slots :
        /\ WF_vars(Verify(k)) /\ WF_vars(Upsert(k)) /\ WF_vars(UpdateUrl(k))
        /\ WF_vars(ApiCall(k)) /\ WF_vars(Touch(k))

SpecSilent == Init /\ [][NextSilent]_vars /\ Fairness

\* The events of Next with a Telegram API that may reject what the bot sends.
NextRejecting == Next \/ DeliverRejected

SpecRejecting == Init /\ [][NextRejecting]_vars


(***************************************************************************)
(* Properties.                                                             *)
(***************************************************************************)
IsPress(t, data) == t.pc # "idle" /\ t.ev.kind = "press" /\ t.ev.data = data

\* Task k took the step (every action changes exactly one activation).
Stepped(k) == tasks'[k] # tasks[k]

DeleteJobCall(t, n) ==
    [method |-> "DELETE", url |-> t.calls[1].url, token |-> t.calls[1].token,
     path |-> Path("jobs", Digits(n), "")]

\* C1: one press of the confirm button confirm_delete_job_N, by an identity with
\* a Credential, with a backend that answers and a store that works, causes
\* exactly one DELETE /jobs/N call and ends on the 'job deleted' screen.
C1_ConfirmIssuesOneDelete ==
    \A k \in Slots, n \in ResourceIds :
        ( /\ IsPress(tasks[k], WithId(S_confirm_delete_job, n))
          /\ tasks[k].pc = "done"
          /\ tasks[k].resp # None
          /\ tasks[k].resp.status = "ok"
          /\ tasks[k].screen.detail # "API request failed" )
        => /\ tasks[k].calls = <<DeleteJobCall(tasks[k], n)>>
           /\ tasks[k].screen.text = "Job deleted successfully!"

\* The (handler, ctx.match[1]) each identifier of the screens is meant for.
Emitted ==
    {[data |-> S_jobs_list, handler |-> "jobs_list", group |-> <<>>],
     [data |-> S_targets_list, handler |-> "targets_list", group |-> <<>>],
     [data |-> S_leads_all, handler |-> "leads", group |-> S_all],
     [data |-> S_leads_ready, handler |-> "leads", group |-> S_ready],
     [data |-> S_back_menu, handler |-> "back_menu", group |-> <<>>],
     [data |-> S_back_jobs, handler |-> "back_jobs", group |-> <<>>],
     [data |-> S_back_targets, handler |-> "back_targets", group |-> <<>>],
     [data |-> S_back_leads, handler |-> "back_leads", group |-> <<>>],
     [data |-> S_confirm_delete_account, handler |-> "confirm_delete_account", group |-> <<>>],
     [data |-> S_cancel_delete, handler |-> "cancel_delete", group |-> <<>>]}
    \cup UNION {{[data |-> WithId(S_job, n), handler |-> "job", group |-> Digits(n)],
                 [data |-> WithId(S_run_job, n), handler |-> "run_job", group |-> Digits(n)],
                 [data |-> WithId(S_delete_job, n), handler |-> "delete_job",
                  group |-> Digits(n)],
                 [data |-> WithId(S_confirm_delete_job, n), handler |-> "confirm_delete_job",
                  group |-> Digits(n)],
                 [data |-> WithId(S_lead, n), handler |-> "lead", group |-> Digits(n)]}
                : n \in ResourceIds}

\* C2: a press of any identifier the screens emit runs the handler of the verb
\* and resource that produced it, with the same id.
C2_RoundTrip ==
    \A k \in Slots, e \in Emitted :
        IsPress(tasks[k], e.data)
        => tasks[k].handler = e.handler /\ tasks[k].group = e.group

NoDelete(t) == \A i \in 1 .. Len(t.calls) : t.calls[i].method # "DELETE"

\* C3: a press of the Cancel control of the delete-job proposal (jobs_list)
\* issues no DELETE and leaves the backend's jobs as they are; a press of the
\* Cancel control of /deleteaccount (cancel_delete) leaves the store as it is.
C3_CancelKeeps ==
    [][\A k \in Slots :
          /\ (Stepped(k) /\ IsPress(tasks'[k], S_jobs_list))
                => jobs' = jobs /\ NoDelete(tasks'[k])
          /\ (Stepped(k) /\ IsPress(tasks'[k], S_cancel_delete))
                => docs' = docs /\ jobs' = jobs /\ tasks'[k].calls = <<>>]_vars

\* Witness of C3: the account Cancel control was pressed and handled, and the
\* Credential of the identity is still there.
C3_Witness ==
    \E k \in Slots :
        /\ IsPress(tasks[k], S_cancel_delete)
        /\ tasks[k].pc = "done"
        /\ tasks[k].screen = Message("Account deletion cancelled.")
        /\ getClient(docs, tasks[k].ev.from) # None
        /\ 7 \in jobs

\* C4: confirming the deletion of a job that is already gone (the backend
\* answers 'not found') ends on the success screen, with no error shown.
C4_SecondConfirmSucceeds ==
    \A k \in Slots, n \in ResourceIds :
        ( /\ IsPress(tasks[k], WithId(S_confirm_delete_job, n))
          /\ tasks[k].pc = "done"
          /\ tasks[k].resp # None
          /\ tasks[k].resp.status = "notfound" )
        => /\ tasks[k].screen.text = "Job deleted successfully!"
           /\ tasks[k].screen.detail = ""

\* The handlers that need a Credential.
CredentialHandlers ==
    {"hears_jobs", "hears_targets", "hears_leads", "stats", "content", "settings",
     "jobs_list", "job", "run_job", "confirm_delete_job", "targets_list", "leads", "lead"}

\* C5: a handler that needs a Credential and finds none (the lookup itself
\* worked) replies with the one 'set your token' message and calls no backend.
C5_UniformNotOnboarded ==
    \A k \in Slots :
        ( /\ tasks[k].pc = "done"
          /\ tasks[k].handler \in CredentialHandlers
          /\ tasks[k].calls = <<>>
          /\ getClient(docs, tasks[k].ev.from) = None
          /\ tasks[k].screen # GenericError )
        => tasks[k].screen = NotOnboarded

\* C6: a settoken whose verification call fails ends there: the step writes
\* nothing to the store, and no settoken reaches its write without an answer
\* of success.
C6_FailedVerifyWritesNothing ==
    [][\A k \in Slots :
          /\ (Stepped(k) /\ tasks[k].pc = "verify" /\ tasks'[k].resp.status # "ok")
                => docs' = docs /\ tasks'[k].pc = "done"
          /\ (Stepped(k) /\ tasks[k].pc = "upsert")
                => tasks[k].resp # None /\ tasks[k].resp.status = "ok"]_vars

\* Witness of C6: a settoken of an identity without a Credential has failed its
\* verification and the identity still has none.
C6_Witness ==
    \E k \in Slots :
        /\ tasks[k].pc = "done"
        /\ tasks[k].handler = "settoken"
        /\ tasks[k].resp # None
        /\ tasks[k].resp.status # "ok"
        /\ getClient(docs, tasks[k].ev.from) = None


Owned(db, u) == {d \in db : d.telegramId = u}

\* C7: a step of a handler that runs for identity u leaves the documents of
\* every other identity as they are; the document a handler takes from the
\* store is one keyed by its own identity, and the request it sends carries the
\* token and the base URL of that document.
C7_CredentialIsolation ==
    [][\A k \in Slots :
          Stepped(k) =>
             LET t == tasks'[k]
                 u == t.ev.from
                 sent == Len(t.calls) > Len(tasks[k].calls)
             IN  /\ \A v \in Identities \ {u} : Owned(docs', v) = Owned(docs, v)
                 /\ (Free(k) /\ t.client # None) => t.client \in Owned(docs, u)
                 /\ (sent /\ t.handler \in ApiHandlers)
                       => /\ tasks[k].client.telegramId = u
                          /\ t.calls[Len(t.calls)].token = tasks[k].client.apiToken
                          /\ t.calls[Len(t.calls)].url = tasks[k].client.baseUrl]_vars

\* Witness of C7: handlers of A and of B are suspended side by side after a
\* call for the same job id, each call under a different token, with both
\* Credentials in the store.
C7_Witness ==
    /\ tasks[1].pc = "touch" /\ tasks[2].pc = "touch"
    /\ tasks[1].ev.from # tasks[2].ev.from
    /\ tasks[1].calls[1].path = tasks[2].calls[1].path
    /\ tasks[1].calls[1].token # tasks[2].calls[1].token
    /\ \A u \in Identities : Owned(docs, u) # {}

\* C8: the store never holds two documents of one identity, and the write of a
\* settoken leaves the identity with exactly the record of that write: its
\* token, the configured base URL and its timestamp, nothing of a record that
\* was there before or of a settoken running beside it.
C8_OneCredentialPerIdentity ==
    [][/\ \A u \in Identities : Cardinality(Owned(docs', u)) <= 1
       /\ \A k \in Slots :
             (Stepped(k) /\ tasks[k].pc = "upsert" /\ docs' # docs)
                => Owned(docs', tasks[k].ev.from) =
                      {Doc(tasks[k].ev.from, tasks[k].ev.arg, DefaultUrl, clock')}]_vars

\* Witness of C8: two settoken commands of one identity, with different tokens,
\* have both written; the identity has one record, and it is the record of one
\* of the two.
C8_Witness ==
    /\ tasks[1].pc = "done" /\ tasks[2].pc = "done"
    /\ tasks[1].handler = "settoken" /\ tasks[2].handler = "settoken"
    /\ tasks[1].ev.from = tasks[2].ev.from
    /\ tasks[1].ev.arg # tasks[2].ev.arg
    /\ tasks[1].screen = Message("Token verified and saved successfully!")
    /\ tasks[2].screen = tasks[1].screen
    /\ \E d \in docs :
          /\ Owned(docs, tasks[1].ev.from) = {d}
          /\ d.apiToken \in {tasks[1].ev.arg, tasks[2].ev.arg}
          /\ d.baseUrl = DefaultUrl

\* C9: when the backend call of makeApiRequest has succeeded, the handler
\* renders what it renders for that answer, whatever becomes of the lastUsed
\* update.
C9_TouchFailureSwallowed ==
    \A k \in Slots :
        ( /\ tasks[k].pc = "done"
          /\ tasks[k].handler \in ApiHandlers
          /\ tasks[k].resp # None
          /\ tasks[k].resp.status = "ok" )
        => tasks[k].screen = OnSuccess(tasks[k].handler, tasks[k].group, tasks[k].resp)

\* C10: a press whose callback data matches no registration is answered with a
\* fallback message.
C10_UnrecognizedGetsFallback ==
    \A k \in Slots :
        ( /\ tasks[k].pc = "done"
          /\ tasks[k].ev.kind = "press"
          /\ tasks[k].handler = NoHandler )
        => tasks[k].screen.text # ""

\* C11: a handler that waits for the backend (a call of makeApiRequest or the
\* verification call of settoken) or for the store comes to its end, also when
\* the backend never answers.
C11_CallsComplete == \A k \in Slots : InFlight(k) ~> Free(k)

\* The user got something: a message, an edited message or an alert.
Rendered(screen) == screen.text # "" \/ screen.alerts # <<>>

\* C12: every event that has a handler ends with something rendered to the
\* user, whatever failed on the way (the store, the backend, a send), and the
\* process goes on handling events.
C12_FailuresAreRendered ==
    /\ alive
    /\ \A k \in Slots :
          (tasks[k].pc = "done" /\ tasks[k].handler # NoHandler)
             => Rendered(tasks[k].screen)

\* C13: a seturl that ends on 'updated successfully' leaves the identity with a
\* Credential whose baseUrl is the value given, and a seturl of an identity
\* without a Credential creates none, also when a confirm_delete_account of the
\* same identity runs between the lookup and the update.
C13_SeturlReportsTheUpdate ==
    [][\A k \in Slots :
          ( /\ Stepped(k)
            /\ tasks'[k].pc = "done"
            /\ tasks'[k].handler = "seturl"
            /\ tasks'[k].ev.arg # "" )
          => LET u == tasks'[k].ev.from
             IN  /\ Owned(docs, u) = {} => Owned(docs', u) = {}
                 /\ tasks'[k].screen = Message("Base URL updated successfully!")
                       => \E d \in Owned(docs', u) : d.baseUrl = tasks'[k].ev.arg]_vars

\* C14: the step that gives an identity its Credential is the write of a
\* settoken of that identity whose verification was answered with success, and
\* the step that takes it away is that identity's confirm_delete_account; no
\* other step (seturl, a call, its lastUsed update, a cancel, a step of another
\* identity) creates or removes a record.
C14_CredentialLifecycle ==
    [][\A u \in Identities :
          /\ (Owned(docs, u) = {} /\ Owned(docs', u) # {})
                => \E k \in Slots :
                      /\ Stepped(k)
                      /\ tasks[k].pc = "upsert"
                      /\ tasks[k].handler = "settoken"
                      /\ tasks[k].ev.from = u
                      /\ tasks[k].resp.status = "ok"
          /\ (Owned(docs, u) # {} /\ Owned(docs', u) = {})
                => \E k \in Slots :
                      \* the update was handed to slot k (the activation it
                      \* leaves may equal the one the slot held before)
                      /\ Free(k)
                      /\ \A j \in Slots \ {k} : ~Stepped(j)
                      /\ IsPress(tasks'[k], S_confirm_delete_account)
                      /\ tasks'[k].handler = "confirm_delete_account"
                      /\ tasks'[k].ev.from = u]_vars

\* Witness of C14: the account of an identity was deleted while a call of the
\* same identity was in flight; the call and its lastUsed update have since
\* ended with success, and the identity has no record.
C14_Witness ==
    /\ tasks[1].pc = "done" /\ tasks[2].pc = "done"
    /\ tasks[1].handler = "job"
    /\ tasks[1].resp # None
    /\ tasks[1].screen = OnSuccess("job", tasks[1].group, tasks[1].resp)
    /\ tasks[2].handler = "confirm_delete_account"
    /\ tasks[2].screen = Message("Account deleted successfully!")
    /\ tasks[2].ev.from = tasks[1].ev.from
    /\ Owned(docs, tasks[1].ev.from) = {}

ListHandlers == {"jobs_list", "targets_list", "leads", "content"}

\* The fixed screens of an empty list.
EmptyScreens ==
    {Message("No jobs found."), Message("No targets found."), Message("No leads found."),
     Message("No content analysis data found.")}

\* The headings of the list screens.
ListHeadings == {"Jobs List", "Targets", "Leads", "Content Analysis"}

\* makeApiRequest has returned the answer of the backend to the handler: the
\* backend answered with success and the lastUsed update was not rejected.
Returned(t) ==
    /\ t.pc = "done"
    /\ t.resp # None
    /\ t.resp.status = "ok"
    /\ t.screen.detail # "API request failed"

\* C15: a list handler (jobs, targets, leads, content analysis) that got the
\* answer of the backend shows its 'nothing found' screen exactly when the
\* answer holds no items, and a list screen otherwise.
C15_EmptyIffNoItems ==
    \A k \in Slots :
        (Returned(tasks[k]) /\ tasks[k].handler \in ListHandlers)
        => /\ tasks[k].screen \in EmptyScreens <=> tasks[k].resp.items = {}
           /\ tasks[k].resp.items # {} => tasks[k].screen.text \in ListHeadings

\* Witness of C15: the targets list was asked for, the backend answered with
\* no items, and the 'No targets found.' screen is shown.
C15_Witness ==
    \E k \in Slots :
        /\ Returned(tasks[k])
        /\ tasks[k].handler = "targets_list"
        /\ tasks[k].resp.items = {}
        /\ tasks[k].screen = Message("No targets found.")

\* C16: a list screen with items shows the page and the total of the
\* pagination envelope of the answer.
C16_PageAndTotalShown ==
    \A k \in Slots :
        ( /\ Returned(tasks[k])
          /\ tasks[k].handler \in ListHandlers
          /\ tasks[k].resp.items # {} )
        => /\ Field("page", tasks[k].resp.pagination.page) \in tasks[k].screen.paging
           /\ Field("total", tasks[k].resp.pagination.total) \in tasks[k].screen.paging

\* C17: what a screen shows of the stored token is a proper prefix of it,
\* never the whole token.
C17_TokenNeverInFull ==
    \A k \in Slots :
        (tasks[k].pc = "done" /\ tasks[k].screen.token # "")
        => LET shown == tasks[k].screen.token
               stored == tasks[k].client.apiToken
           IN  /\ Len(shown) < Len(stored)
               /\ shown = SubSeq(stored, 1, Len(shown))

\* C18: the handling of a press of a Cancel control (jobs_list on the delete-job
\* proposal, cancel_delete on the delete-account proposal) sends no request to
\* the backend and writes nothing to the store.
C18_CancelIsNoOp ==
    [][\A k \in Slots :
          (Stepped(k) /\ tasks'[k].ev.kind = "press"
                      /\ tasks'[k].ev.data \in {S_jobs_list, S_cancel_delete})
          => /\ tasks'[k].calls = <<>>
             /\ docs' = docs]_vars

\* C19: the write of a successful settoken gives the record of the identity the
\* new token and leaves the baseUrl the record had, also one that an earlier
\* seturl stored.
C19_SettokenKeepsBaseUrl ==
    [][\A k \in Slots :
          ( /\ Stepped(k)
            /\ tasks[k].pc = "upsert"
            /\ tasks'[k].screen = Message("Token verified and saved successfully!") )
          => LET u == tasks[k].ev.from
             IN  /\ \E e \in Owned(docs', u) : e.apiToken = tasks[k].ev.arg
                 /\ \A d \in Owned(docs, u) :
                       \E e \in Owned(docs', u) : e.baseUrl = d.baseUrl]_vars

\* The callback data of the buttons whose handlers call the backend.
CallingData ==
    {S_jobs_list, S_targets_list, S_leads_all, S_leads_ready}
    \cup {WithId(p, n) : p \in {S_job, S_lead, S_run_job}, n \in ResourceIds}

\* C20: a press of job_N, lead_N, run_job_N or of a list button, by an identity
\* with a Credential, whose backend call was answered with success and handed
\* to the handler, ends on a screen that reports no error: a message that is
\* not an error text, or the 'Job started!' alert alone.
C20_SuccessShowsNoError ==
    \A k \in Slots :
        ( /\ Returned(tasks[k])
          /\ tasks[k].ev.kind = "press"
          /\ tasks[k].ev.data \in CallingData )
        => /\ Rendered(tasks[k].screen)
           /\ tasks[k].screen.text # "Error: "
           /\ tasks[k].screen.alerts \in {<<>>, <<"Job started!">>}

\* C21: the callback data of every button of a screen a handler has rendered
\* is matched by a registered action.
C21_ButtonsHaveHandlers ==
    \A k \in Slots :
        tasks[k].pc = "done"
        => \A data \in tasks[k].screen.buttons : Route[data].handler # NoHandler

====
